---- MODULE Spec2Model ----
(***************************************************************************)
(* Document indexing and retrieval-augmented query engine of the precast   *)
(* cost management backend: RAGService (services/rag), EmbeddingService    *)
(* (services/embeddings), DatabaseQueries (db/queries) and the upload and  *)
(* query routes that call them.                                            *)
(*                                                                         *)
(* Every await of a handler is one atomic step against an external store   *)
(* (Workers AI, Vectorize, D1); any of them may raise.  Upload, indexing   *)
(* and query requests are served one at a time: a new request starts when  *)
(* none is in flight.  The cost routes (routes/costs) are served           *)
(* concurrently, and the CostCalculator functions are called on their own. *)
(***************************************************************************)
EXTENDS Integers, Sequences, FiniteSets, Bags, TLC

VARIABLES
  documents,        \* D1 table documents, row id = position (AUTOINCREMENT)
  vector_metadata,  \* D1 table vector_metadata: the bag of its rows (the
                    \* generated id and created_at, which nothing reads, left out)
  vectorize,        \* the Vectorize index: vector id -> [values, metadata]
  run,              \* the indexDocument invocation in flight (or the last one)
  prev,             \* the indexDocument run that finished before the one
                    \* in `run` (kept to state claims about re-runs)
  nRuns,            \* number of indexDocument invocations started
  qres,             \* outcome of the query call just served (cleared when
                    \* the next request starts)
  costdb,           \* D1 tables production_costs, projects,
                    \* transportation_costs and installation_costs
  cres,             \* outcome of the getCostContext call just made
  chunker,          \* the chunkText invocation: its arguments and locals
  upres,            \* response of the upload request just served (cleared
                    \* when the next request starts)
  posts,            \* the POST /api/costs requests in flight: each one's
                    \* position in its handler and what it computed
  call              \* a call of a CostCalculator function or of
                    \* cosineSimilarity: its arguments and outcome

vars == <<documents, vector_metadata, vectorize, run, prev, nRuns, qres,
          costdb, cres, chunker, upres, posts, call>>

----------------------------------------------------------------------------
(* Bounds of the model *)

MaxRuns == 3
MaxDocs == 1
\* indexDocument runs that precede the queries of SpecQuery
QueryRuns == 1
\* chunkText: words of a text, largest chunkSize and overlap, and the
\* passes of the loop that are followed (a loop that never ends is cut there)
MaxWords == 8
MaxChunkSize == 4
MaxChunks == 12

\* Cost requests in flight at once
MaxPosts == 2

(* Program constants *)

DefaultChunkSize == 512
DefaultOverlap == 50
DefaultTopK == 5

Null == "null"
IndexingFailure == "Failed to index document"
QueryFailure == "Failed to process query"
Undefined == "undefined"
EmptyWord == 0
NoMetadata == [k \in {} |-> 0]

Min(a, b) == IF a < b THEN a ELSE b

----------------------------------------------------------------------------
(* EmbeddingService *)

\* A text is a run of words separated by whitespace, with optional leading
\* and trailing whitespace; words are positive integers.  text.split(/\s+/)
\* yields the words, with an empty first (last) word when the text starts
\* (ends) with whitespace, and [""] for the empty text.
SplitWhitespace(text) ==
  IF text.words = <<>>
  THEN IF text.lead THEN <<EmptyWord, EmptyWord>> ELSE <<EmptyWord>>
  ELSE (IF text.lead THEN <<EmptyWord>> ELSE <<>>) \o text.words
       \o (IF text.trail THEN <<EmptyWord>> ELSE <<>>)

\* Array.prototype.slice clamps its bounds: a negative index counts from the
\* end and an index outside the array is moved to its nearest end.
SliceIndex(k, len) ==
  IF k < 0 THEN (IF len + k < 0 THEN 0 ELSE len + k) ELSE Min(k, len)

\* words.slice(i, i + chunkSize) with a zero-based i; the chunk is the slice
\* joined by single spaces, kept here as the sequence of its words.
Slice(words, i, j) ==
  SubSeq(words, SliceIndex(i, Len(words)) + 1, SliceIndex(j, Len(words)))

RECURSIVE ChunkLoop(_, _, _, _, _)
ChunkLoop(words, chunkSize, overlap, i, chunks) ==
  IF i < Len(words)
  THEN ChunkLoop(words, chunkSize, overlap, i + (chunkSize - overlap),
                 Append(chunks, Slice(words, i, i + chunkSize)))
  ELSE chunks

\* Mutant: only full windows are kept (the trailing partial chunk is lost).
ChunkTextFullWindowsOnly(text, chunkSize, overlap) ==
  SelectSeq(ChunkLoop(SplitWhitespace(text), chunkSize, overlap, 0, <<>>),
            LAMBDA c : Len(c) = chunkSize)

ChunkText(text, chunkSize, overlap) ==
  ChunkLoop(SplitWhitespace(text), chunkSize, overlap, 0, <<>>)

\* chunkText run one statement at a time: pc "split" before line 211, "loop"
\* at the test of the while loop, "done" after the return.
IdleChunker ==
  [pc |-> "idle", text |-> [lead |-> FALSE, words |-> <<>>, trail |-> FALSE],
   chunkSize |-> DefaultChunkSize, overlap |-> DefaultOverlap,
   words |-> <<>>, i |-> 0, chunks |-> <<>>]

EnterChunkText(text, chunkSize, overlap) ==
  [pc |-> "split", text |-> text, chunkSize |-> chunkSize, overlap |-> overlap,
   words |-> <<>>, i |-> 0, chunks |-> <<>>]

\* while (i < words.length)
LoopTest(c) == c.i < Len(c.words)

\* Mutant: the chunk is cut one word short.
LoopBodyShortSlice(c) ==
  [c EXCEPT !.chunks = Append(c.chunks, Slice(c.words, c.i, c.i + c.chunkSize - 1)),
            !.i = c.i + (c.chunkSize - c.overlap)]

\* Lines 216-218: one pass of the loop.
LoopBody(c) ==
  [c EXCEPT !.chunks = Append(c.chunks, Slice(c.words, c.i, c.i + c.chunkSize)),
            !.i = c.i + (c.chunkSize - c.overlap)]

\* The embedding model is external: the vector of a text is an opaque value
\* determined by the text.
Embedding(text) == <<"embedding", Len(text), IF text = <<>> THEN 0 ELSE text[1]>>

GenerateBatchEmbeddings(texts) ==
  [k \in 1..Len(texts) |->
     [embedding |-> Embedding(texts[k]), dimensions |-> 3]]

----------------------------------------------------------------------------
(* RAGService.indexDocument *)

\* Mutant: the key leaves the document id out.
VectorIdWithoutDocument(documentId, index) == "chunk_" \o ToString(index)

VectorId(documentId, index) ==
  "doc_" \o ToString(documentId) \o "_chunk_" \o ToString(index)

DocumentHandle(documentId) == "doc_" \o ToString(documentId)

\* { document_id, chunk_index, chunk_text, ...metadata }: the caller's keys
\* are spread last.
MergeMetadata(base, extra) ==
  [k \in DOMAIN base \cup DOMAIN extra |->
     IF k \in DOMAIN extra THEN extra[k] ELSE base[k]]

BuildVectors(documentId, chunks, embeddings, metadata) ==
  [k \in 1..Len(chunks) |->
     [id |-> VectorId(documentId, k - 1),
      values |-> embeddings[k].embedding,
      metadata |-> MergeMetadata([document_id |-> documentId,
                                  chunk_index |-> k - 1,
                                  chunk_text |-> chunks[k]], metadata)]]

\* Mutant: every row stores the first chunk's text.
MetadataRowFirstChunk(documentId, i, chunks) ==
  [document_id |-> documentId,
   chunk_index |-> i,
   chunk_text |-> chunks[1],
   vector_id |-> VectorId(documentId, i)]

\* Mutant: the chunk index is one-based.
MetadataRowOneBased(documentId, i, chunks) ==
  [document_id |-> documentId,
   chunk_index |-> i + 1,
   chunk_text |-> chunks[i + 1],
   vector_id |-> VectorId(documentId, i)]

MetadataRow(documentId, i, chunks) ==
  [document_id |-> documentId,
   chunk_index |-> i,
   chunk_text |-> chunks[i + 1],
   vector_id |-> VectorId(documentId, i)]

\* The index is keyed by vector id: an entry written under an existing id
\* replaces it.
VectorizeInsert(index, vectors) ==
  LET ids == {vectors[k].id : k \in 1..Len(vectors)}
      Last(id) == CHOOSE k \in 1..Len(vectors) :
                    /\ vectors[k].id = id
                    /\ \A m \in 1..Len(vectors) : vectors[m].id = id => m <= k
  IN [id \in DOMAIN index \cup ids |->
        IF id \in ids
        THEN [values |-> vectors[Last(id)].values,
              metadata |-> vectors[Last(id)].metadata]
        ELSE index[id]]

\* Mutant: a row with the same vector id is replaced instead of appended.
CreateVectorMetadataUpsert(table, row) ==
  LET kept == {r \in BagToSet(table) : r.vector_id # row.vector_id}
  IN [r \in kept |-> CopiesIn(r, table)] (+) SetToBag({row})

CreateVectorMetadata(table, row) == table (+) SetToBag({row})

UpdateDocumentVectorStatus(table, documentId, vectorId) ==
  [id \in 1..Len(table) |->
     IF id = documentId
     THEN [table[id] EXCEPT !.vector_indexed = TRUE, !.vector_id = vectorId]
     ELSE table[id]]

CreateDocument(table, filename) ==
  Append(table, [filename |-> filename, vector_indexed |-> FALSE, vector_id |-> Null])

IdleRun ==
  [pc |-> "idle", via |-> "none", documentId |-> 0,
   metadata |-> NoMetadata, chunks |-> <<>>, vectors |-> <<>>, i |-> 0,
   error |-> Null]

\* Lines 26-28: the call enters the try block and chunks the text.
BeginIndex(via, documentId, text, metadata) ==
  [pc |-> "embed", via |-> via, documentId |-> documentId,
   metadata |-> metadata,
   chunks |-> ChunkText(text, DefaultChunkSize, DefaultOverlap),
   vectors |-> <<>>, i |-> 0, error |-> Null]

----------------------------------------------------------------------------
(* RAGService.query *)

\* A string the service scans is a sequence of atoms: a cost label, one
\* character of ":", " ", ",", "0".."9", or a stretch of other text.
\* The labels and the fixed answers are Thai in the source and are named
\* here by their meaning.
MaterialLabel == "material"
LaborLabel == "labor"
OverheadLabel == "overhead"
TotalLabel == "total"

\* response.response || <no answer>, line 239
NoAnswer == <<"could not generate an answer">>
\* the catch block of generateAnswer, line 242
GenerationFallback == <<"an error occurred while generating the answer, please try again">>

SeparatorAtoms == {":", " "}
DigitAtoms == {"0", "1", "2", "3", "4", "5", "6", "7", "8", "9"}
NumberAtoms == DigitAtoms \cup {","}

DigitValue(c) ==
  CASE c = "0" -> 0 [] c = "1" -> 1 [] c = "2" -> 2 [] c = "3" -> 3
    [] c = "4" -> 4 [] c = "5" -> 5 [] c = "6" -> 6 [] c = "7" -> 7
    [] c = "8" -> 8 [] c = "9" -> 9

\* The longest stretch of atoms of `class` that starts at position p.
RECURSIVE RunEnd(_, _, _)
RunEnd(str, p, class) ==
  IF p <= Len(str) /\ str[p] \in class THEN RunEnd(str, p + 1, class) ELSE p

\* answer.match(/<label>[:\s]+([0-9,]+)/): the leftmost match and its
\* capture group, or no match.  The two classes are disjoint, so a label
\* matches exactly when its separators are followed by a number atom.
RECURSIVE MatchLabel(_, _, _)
MatchLabel(str, label, p) ==
  IF p > Len(str) THEN [matched |-> FALSE, group |-> <<>>]
  ELSE LET s == RunEnd(str, p + 1, SeparatorAtoms)
           e == RunEnd(str, s, NumberAtoms)
       IN IF str[p] = label /\ s > p + 1 /\ e > s
          THEN [matched |-> TRUE, group |-> SubSeq(str, s, e - 1)]
          ELSE MatchLabel(str, label, p + 1)

\* parseFloat(group.replace(/,/g, '')): NaN when no digit is left.
RECURSIVE DigitsValue(_, _)
DigitsValue(digits, acc) ==
  IF digits = <<>> THEN acc
  ELSE DigitsValue(Tail(digits), 10 * acc + DigitValue(Head(digits)))

ParseFloat(group) ==
  LET digits == SelectSeq(group, LAMBDA c : c # ",")
  IN IF digits = <<>>
     THEN [nan |-> TRUE, value |-> 0]
     ELSE [nan |-> FALSE, value |-> DigitsValue(digits, 0)]

CostLabels ==
  [material |-> MaterialLabel, labor |-> LaborLabel,
   overhead |-> OverheadLabel, total |-> TotalLabel]

\* Mutant: the breakdown object is returned even when it has no key.
ExtractCostBreakdownAlwaysObject(answer) ==
  LET found == {f \in DOMAIN CostLabels :
                  MatchLabel(answer, CostLabels[f], 1).matched}
  IN [present |-> TRUE,
      fields |-> [f \in found |->
                    ParseFloat(MatchLabel(answer, CostLabels[f], 1).group)]]

\* The breakdown object, or none when it has no key.
ExtractCostBreakdown(answer) ==
  LET found == {f \in DOMAIN CostLabels :
                  MatchLabel(answer, CostLabels[f], 1).matched}
      breakdown == [f \in found |->
                      ParseFloat(MatchLabel(answer, CostLabels[f], 1).group)]
  IN [present |-> found # {}, fields |-> breakdown]

NoBreakdown == [present |-> FALSE, fields |-> [f \in {} |-> 0]]

\* The matches the index may return for a query: at most topK entries, each
\* once, by descending score.
Scores == {90, 50}

VectorizeQuery(index, topK) ==
  LET n == Min(topK, Cardinality(DOMAIN index))
      rankings == {r \in [1..n -> DOMAIN index] :
                     \A a, b \in 1..n : a # b => r[a] # r[b]}
      scorings == {sc \in [1..n -> Scores] :
                     \A a, b \in 1..n : a < b => sc[a] >= sc[b]}
  IN {[k \in 1..n |->
         [id |-> r[k], score |-> sc[k], metadata |-> index[r[k]].metadata]] :
        r \in rankings, sc \in scorings}

\* What is kept of the matches in the outcome: which entries, in which order.
MatchKeys(matches) ==
  [k \in 1..Len(matches) |-> [id |-> matches[k].id, score |-> matches[k].score]]

\* SELECT * FROM documents WHERE id = ?: the row, or null, of which
\* document?.filename is undefined.
NoDocument == [filename |-> Undefined, vector_indexed |-> FALSE, vector_id |-> Null]

GetDocument(table, id) ==
  IF id \in 1..Len(table) THEN table[id] ELSE NoDocument

\* if (documentId): the document id of the vector metadata is a number.
Truthy(v) == v # 0

\* retrieveSourceContext: does the loop look a document up at all
LooksUpDocument(matches) ==
  \E k \in 1..Len(matches) : Truthy(matches[k].metadata.document_id)

RetrieveSourceContext(matches, table) ==
  LET withId == SelectSeq(matches, LAMBDA m : Truthy(m.metadata.document_id))
  IN [k \in 1..Len(withId) |->
        LET document == GetDocument(table, withId[k].metadata.document_id)
        IN MergeMetadata(withId[k].metadata,
                         [filename |-> document.filename,
                          score |-> withId[k].score])]

\* generateAnswer: the one text-generation call, its failure absorbed.
GenerateAnswer(generationFails, response) ==
  IF generationFails THEN GenerationFallback
  ELSE IF response = <<>> THEN NoAnswer ELSE response

ResponseSources(sources) ==
  [k \in 1..Len(sources) |->
     [document |-> IF sources[k].filename = Undefined THEN "Unknown"
                   ELSE sources[k].filename,
      relevance |-> sources[k].score,
      chunk_text |-> sources[k].chunk_text]]

\* The outcome of a query call: what it returned or raised, with the fault
\* injected, the matches the index returned and the number of
\* text-generation calls made.
NoQuery ==
  [status |-> "none", fault |-> "none", answer |-> <<>>, sources |-> <<>>,
   cost_breakdown |-> NoBreakdown, error |-> Null, matches |-> <<>>,
   generationCalls |-> 0]

\* Lines 111-114: the error is logged and 'Failed to process query' thrown.
QueryRaised(fault) ==
  [status |-> "raised", fault |-> fault, answer |-> <<>>, sources |-> <<>>,
   cost_breakdown |-> NoBreakdown, error |-> QueryFailure,
   matches |-> <<>>, generationCalls |-> 0]

\* query(input).  fault names the external call that raises, if any;
\* matches is what the index returns, response what the model generates.
\* getCostContext never raises and its text only enters the prompt.
\* Mutant: generateAnswer has no catch block of its own.
RunQueryGenerationRaises(fault, matches, response, table) ==
  IF fault \in {"embedding", "search", "generation"} THEN QueryRaised(fault)
  ELSE IF fault = "document" /\ LooksUpDocument(matches) THEN QueryRaised(fault)
  ELSE LET sources == RetrieveSourceContext(matches, table)
           answer == GenerateAnswer(FALSE, response)
       IN [status |-> "returned",
           fault |-> fault,
           answer |-> answer,
           sources |-> ResponseSources(sources),
           cost_breakdown |-> ExtractCostBreakdown(answer),
           error |-> Null,
           matches |-> MatchKeys(matches),
           generationCalls |-> 1]

\* Mutant: a failed similarity search is treated as an empty result.
RunQuerySearchSwallowed(fault, matches, response, table) ==
  IF fault = "embedding" THEN QueryRaised(fault)
  ELSE IF fault = "document" /\ LooksUpDocument(matches) THEN QueryRaised(fault)
  ELSE LET found == IF fault = "search" THEN <<>> ELSE matches
           sources == RetrieveSourceContext(found, table)
           answer == GenerateAnswer(fault = "generation", response)
       IN [status |-> "returned",
           fault |-> fault,
           answer |-> answer,
           sources |-> ResponseSources(sources),
           cost_breakdown |-> ExtractCostBreakdown(answer),
           error |-> Null,
           matches |-> MatchKeys(found),
           generationCalls |-> 1]

RunQuery(fault, matches, response, table) ==
  IF fault = "embedding" THEN QueryRaised(fault)
  ELSE IF fault = "search" THEN QueryRaised(fault)
  ELSE IF fault = "document" /\ LooksUpDocument(matches) THEN QueryRaised(fault)
  ELSE LET sources == RetrieveSourceContext(matches, table)
           answer == GenerateAnswer(fault = "generation", response)
       IN [status |-> "returned",
           fault |-> fault,
           answer |-> answer,
           sources |-> ResponseSources(sources),
           cost_breakdown |-> ExtractCostBreakdown(answer),
           error |-> Null,
           matches |-> MatchKeys(matches),
           generationCalls |-> 1]

----------------------------------------------------------------------------
(* RAGService.getCostContext *)

\* The context is built line by line; a line is named by what it reports
\* (the wording is Thai in the source).  Averages are printed with
\* toFixed(2) and are kept in hundredths, rounded to nearest.
ContextLine(kind, name, amount) == [line |-> kind, name |-> name, amount |-> amount]

\* context || <no cost data in the system>, line 192
NoCostData == <<ContextLine("no cost data", "", 0)>>

RECURSIVE Sum(_)
Sum(amounts) == IF amounts = <<>> THEN 0 ELSE Head(amounts) + Sum(Tail(amounts))

ToFixed2(total, count) == (200 * total + count) \div (2 * count)

\* SELECT * FROM projects WHERE id = ?
NoProject == [name |-> "", total_estimated_cost |-> 0, total_actual_cost |-> 0,
              found |-> FALSE]

GetProject(db, id) ==
  IF id \in 1..Len(db.projects)
  THEN [name |-> db.projects[id].name,
        total_estimated_cost |-> db.projects[id].total_estimated_cost,
        total_actual_cost |-> db.projects[id].total_actual_cost,
        found |-> TRUE]
  ELSE NoProject

\* getProductionCosts(undefined, undefined, undefined): every row
GetProductionCosts(db) == db.production

\* Mutant: the project filter is dropped from the WHERE clause.
CostsOfAnyProject(rows, projectId) == rows

\* getTransportationCosts(projectId), getInstallationCosts(projectId)
CostsOfProject(rows, projectId) ==
  SelectSeq(rows, LAMBDA r : r.project_id = projectId)

TotalCosts(rows) == [k \in 1..Len(rows) |-> rows[k].total_cost]

\* Lines 156-161
ProductionLines(db) ==
  LET costs == GetProductionCosts(db)
  IN IF Len(costs) > 0
     THEN <<ContextLine("average production cost per unit", "",
                        ToFixed2(Sum(costs), Len(costs)))>>
     ELSE <<>>

\* Lines 165-170; a null cost is printed as 0 (|| 0) and the amounts are
\* in whole baht.
ProjectLines(db, projectId) ==
  LET project == GetProject(db, projectId)
  IN IF project.found
     THEN <<ContextLine("project", project.name, 0),
            ContextLine("estimated cost", "", project.total_estimated_cost),
            ContextLine("actual cost", "", project.total_actual_cost)>>
     ELSE <<>>

\* Lines 172-178 and 180-186
AverageLines(kind, rows, projectId) ==
  LET costs == TotalCosts(CostsOfProject(rows, projectId))
  IN IF Len(costs) > 0
     THEN <<ContextLine(kind, "", ToFixed2(Sum(costs), Len(costs)))>>
     ELSE <<>>

\* The text built inside the try block; fault names the lookup that raises,
\* which ends the block with the lines appended so far.
ContextText(db, projectId, fault) ==
  IF fault = "production" THEN <<>>
  ELSE LET a == ProductionLines(db)
       IN IF ~Truthy(projectId) \/ fault = "project" THEN a
          ELSE LET b == a \o ProjectLines(db, projectId)
               IN IF fault = "transportation" THEN b
                  ELSE LET c == b \o AverageLines("average transportation cost",
                                                  db.transportation, projectId)
                       IN IF fault = "installation" THEN c
                          ELSE c \o AverageLines("average installation cost",
                                                 db.installation, projectId)

NoCostCall == [status |-> "none", projectId |-> 0, fault |-> "none", context |-> <<>>]

\* Mutant: the text is returned as built, without the || fallback.
GetCostContextNoSentinel(db, projectId, fault) ==
  [status |-> "returned", projectId |-> projectId, fault |-> fault,
   context |-> ContextText(db, projectId, fault)]

GetCostContext(db, projectId, fault) ==
  [status |-> "returned", projectId |-> projectId, fault |-> fault,
   context |-> IF ContextText(db, projectId, fault) = <<>> THEN NoCostData
               ELSE ContextText(db, projectId, fault)]

----------------------------------------------------------------------------
(* Inputs *)

\* A text of n distinct words base+1 .. base+n separated by single spaces.
WordsText(n, base) ==
  [lead |-> FALSE, words |-> [k \in 1..n |-> base + k], trail |-> FALSE]

\* The window advances by chunkSize - overlap words, so a text of c chunks
\* has more than (c - 1) * (chunkSize - overlap) words.
DefaultAdvance == DefaultChunkSize - DefaultOverlap

TextInputs ==
  {WordsText(3, 0),
   WordsText(DefaultAdvance + 1, 0)}

Filenames == {"a.txt"}

\* (content type of the file, file_type form field)
UploadKinds ==
  {[type |-> "text/plain", file_type |-> "drawing"],
   [type |-> "application/pdf", file_type |-> "drawing"]}

MetadataInputs == {NoMetadata}

\* metadata of POST /api/query/index that names a key indexDocument sets
OverridingMetadataInputs == {[document_id |-> 0]}

\* topK of the request; 0 stands for a missing (or zero) topK
TopKInputs == {0, 1}

\* The external call of query that raises, if any
Faults == {"none", "embedding", "search", "document", "generation"}

\* What the text-generation model may answer
ResponseInputs ==
  {<<>>,
   <<"no figures are available">>,
   <<TotalLabel, ":", " ", "8", ",", "5", "0", "0", " ", "baht">>,
   <<MaterialLabel, " ", ",", " ", LaborLabel, ":", "1", "2">>}

\* The arguments of a chunkText call: texts of up to MaxWords words, with or
\* without leading and trailing whitespace, and any small chunkSize and
\* overlap (overlap >= chunkSize included).
ChunkTextInputs ==
  {[lead |-> l, words |-> [k \in 1..n |-> k], trail |-> t] :
     l \in BOOLEAN, t \in BOOLEAN, n \in 0..MaxWords}

ChunkSizeInputs == 1..MaxChunkSize
OverlapInputs == 0..MaxChunkSize

\* Contents of the cost tables.  A cost row names an existing project
\* (FOREIGN KEY (project_id) REFERENCES projects(id)) and no row is ever
\* deleted; a NULL cost of a project is kept as 0, which is how it prints.
NoCosts ==
  [production |-> <<>>, projects |-> <<>>, transportation |-> <<>>,
   installation |-> <<>>]

ProductionInputs == {<<>>, <<100>>, <<100, 201>>}

ProjectInputs ==
  {[name |-> "Site A", total_estimated_cost |-> 0, total_actual_cost |-> 0],
   [name |-> "Site A", total_estimated_cost |-> 5000, total_actual_cost |-> 1200]}

TransportationInputs ==
  {<<>>,
   <<[project_id |-> 1, total_cost |-> 700]>>,
   <<[project_id |-> 1, total_cost |-> 700], [project_id |-> 1, total_cost |-> 500]>>}

InstallationInputs == {<<>>, <<[project_id |-> 1, total_cost |-> 500]>>}

CostDbInputs ==
  {[production |-> p, projects |-> <<>>, transportation |-> <<>>,
    installation |-> <<>>] : p \in ProductionInputs}
  \cup
  {[production |-> p, projects |-> <<j>>, transportation |-> t,
    installation |-> i] :
     p \in ProductionInputs, j \in ProjectInputs,
     t \in TransportationInputs, i \in InstallationInputs}

\* project_id of the request; 0 stands for a missing one
ProjectIdInputs == {0, 1, 2}

\* The lookup of getCostContext that raises, if any
CostFaults == {"none", "production", "project", "transportation", "installation"}

----------------------------------------------------------------------------
(* Requests and calls not yet made *)

\* No upload request has been answered.
NoUpload == [status |-> 0, document_id |-> 0, vector_indexed |-> FALSE]

\* No POST /api/costs request has been made.
NoPosts ==
  [r \in 1..MaxPosts |->
     [pc |-> "idle", kind |-> "none", project_id |-> 0, total |-> 0,
      status |-> 0]]

\* Mutant: the response reports that indexing was attempted.
UploadResponseOfAttempt(documentId, indexed) ==
  [status |-> 201, document_id |-> documentId, vector_indexed |-> TRUE]

\* upload.ts lines 99-114: success with vector_indexed: indexed
UploadResponse(documentId, indexed) ==
  [status |-> 201, document_id |-> documentId, vector_indexed |-> indexed]

\* What the handler that awaits the run in r does when the run ends: the
\* upload route sets indexed and answers; POST /api/query/index answers too,
\* which is not kept.
Answer(r, indexed) ==
  IF r.via = "upload" THEN UploadResponse(r.documentId, indexed) ELSE upres

NoCall == [fn |-> "none", pc |-> "idle", args |-> <<>>, result |-> <<>>]

----------------------------------------------------------------------------
(* Actions *)

Settled == run.pc \in {"idle", "done", "failed"}

\* What is remembered of a finished run when the next one starts.
NoRun == [documentId |-> 0, chunks |-> <<>>, outcome |-> "none"]

Finished ==
  IF run.pc = "idle" THEN prev
  ELSE [documentId |-> run.documentId, chunks |-> run.chunks, outcome |-> run.pc]

\* POST /api/documents/upload: the document row is created, then text-based
\* files are indexed.
UploadDocument(filename, kind, text) ==
  /\ Settled
  /\ Len(documents) < MaxDocs
  /\ documents' = CreateDocument(documents, filename)
  /\ IF kind.type = "text/plain" \/ kind.file_type = "report"
     THEN /\ nRuns < MaxRuns
          /\ run' = BeginIndex("upload", Len(documents) + 1, text,
                               [project_id |-> Null,
                                file_type |-> kind.file_type,
                                filename |-> filename])
          /\ nRuns' = nRuns + 1
          /\ upres' = NoUpload
     ELSE /\ run' = IdleRun
          /\ nRuns' = nRuns
          /\ upres' = UploadResponse(Len(documents) + 1, FALSE)
  /\ prev' = Finished
  /\ qres' = NoQuery
  /\ UNCHANGED <<vector_metadata, vectorize, costdb, cres, chunker,
                 posts, call>>

\* upload.ts lines 60-77 and 115-126: the write to the bucket or the insert
\* of the document row raises; 500 is returned and no row exists.
UploadFail ==
  /\ Settled
  /\ Len(documents) < MaxDocs
  /\ upres' = [status |-> 500, document_id |-> 0, vector_indexed |-> FALSE]
  /\ run' = IdleRun
  /\ prev' = Finished
  /\ qres' = NoQuery
  /\ UNCHANGED <<documents, vector_metadata, vectorize, nRuns, costdb, cres,
                 chunker, posts, call>>

\* POST /api/query/index: document_id and text are required.
ManualIndex(documentId, text, metadata) ==
  /\ Settled
  /\ nRuns < MaxRuns
  /\ documentId # 0
  /\ text.words # <<>> \/ text.lead
  /\ run' = BeginIndex("manual", documentId, text, metadata)
  /\ nRuns' = nRuns + 1
  /\ prev' = Finished
  /\ qres' = NoQuery
  /\ upres' = NoUpload
  /\ UNCHANGED <<documents, vector_metadata, vectorize, costdb, cres, chunker,
                 posts, call>>

\* Lines 30-43: the batch embedding returns and the vectors are prepared.
IndexEmbed ==
  /\ run.pc = "embed"
  /\ run' = [run EXCEPT
       !.pc = "insert",
       !.vectors = BuildVectors(run.documentId, run.chunks,
                                GenerateBatchEmbeddings(run.chunks), run.metadata)]
  /\ UNCHANGED <<documents, vector_metadata, vectorize, prev, nRuns, qres, costdb, cres, chunker,
                 upres, posts, call>>

\* Lines 45-46: one batch write to the vector index.
IndexInsert ==
  /\ run.pc = "insert"
  /\ vectorize' = VectorizeInsert(vectorize, run.vectors)
  /\ run' = [run EXCEPT
       !.pc = IF 0 < Len(run.chunks) THEN "metadata" ELSE "status"]
  /\ UNCHANGED <<documents, vector_metadata, prev, nRuns, qres, costdb, cres, chunker,
                 upres, posts, call>>

\* Lines 48-56: one pass of the loop.
IndexStoreMetadata ==
  /\ run.pc = "metadata"
  /\ vector_metadata' =
       CreateVectorMetadata(vector_metadata,
                            MetadataRow(run.documentId, run.i, run.chunks))
  /\ run' = [run EXCEPT
       !.i = run.i + 1,
       !.pc = IF run.i + 1 < Len(run.chunks) THEN "metadata" ELSE "status"]
  /\ UNCHANGED <<documents, vectorize, prev, nRuns, qres, costdb, cres, chunker,
                 upres, posts, call>>

\* Mutant: the status update does not wait for the metadata loop to end.
IndexUpdateStatusEarly ==
  /\ run.pc \in {"metadata", "status"}
  /\ documents' = UpdateDocumentVectorStatus(documents, run.documentId,
                                             DocumentHandle(run.documentId))
  /\ run' = [run EXCEPT !.pc = "done"]
  /\ upres' = Answer(run, TRUE)
  /\ UNCHANGED <<vector_metadata, vectorize, prev, nRuns, qres, costdb, cres,
                 chunker, posts, call>>

\* Lines 58-64: the document is marked indexed and the call returns.
IndexUpdateStatus ==
  /\ run.pc = "status"
  /\ documents' = UpdateDocumentVectorStatus(documents, run.documentId,
                                             DocumentHandle(run.documentId))
  /\ run' = [run EXCEPT !.pc = "done"]
  /\ upres' = Answer(run, TRUE)
  /\ UNCHANGED <<vector_metadata, vectorize, prev, nRuns, qres, costdb, cres,
                 chunker, posts, call>>

\* Mutant: the catch block deletes the document's Chunk Records.
IndexFailWithRollback ==
  /\ run.pc \in {"embed", "insert", "metadata", "status"}
  /\ run' = [run EXCEPT !.pc = "failed", !.error = IndexingFailure]
  /\ vector_metadata' =
       [r \in {x \in BagToSet(vector_metadata) : x.document_id # run.documentId}
          |-> CopiesIn(r, vector_metadata)]
  /\ upres' = Answer(run, FALSE)
  /\ UNCHANGED <<documents, vectorize, prev, nRuns, qres, costdb, cres, chunker,
                 posts, call>>

\* Lines 65-68: the awaited call raises; the error is logged and
\* 'Failed to index document' is thrown.  The upload route catches it
\* (upload.ts lines 93-96) and answers with indexed still false.
IndexFail ==
  /\ run.pc \in {"embed", "insert", "metadata", "status"}
  /\ run' = [run EXCEPT !.pc = "failed", !.error = IndexingFailure]
  /\ upres' = Answer(run, FALSE)
  /\ UNCHANGED <<documents, vector_metadata, vectorize, prev, nRuns, qres,
                 costdb, cres, chunker, posts, call>>

\* Mutant: the query's own embedding is stored in the index for later reuse.
QueryCachingEmbedding(topK, fault, response) ==
  /\ Settled
  /\ qres.status = "none"
  /\ IF fault \in {"embedding", "search"}
     THEN qres' = RunQuery(fault, <<>>, response, documents)
     ELSE \E matches \in VectorizeQuery(vectorize,
                                        IF topK = 0 THEN DefaultTopK ELSE topK) :
            qres' = RunQuery(fault, matches, response, documents)
  /\ vectorize' =
       IF fault = "embedding" THEN vectorize
       ELSE [id \in DOMAIN vectorize \cup {"query"} |->
               IF id = "query"
               THEN [values |-> Embedding(<<>>),
                     metadata |-> [document_id |-> 0, chunk_index |-> 0,
                                   chunk_text |-> <<>>]]
               ELSE vectorize[id]]
  /\ UNCHANGED <<documents, vector_metadata, run, prev, nRuns,
                 costdb, cres, chunker, upres, posts, call>>

\* POST /api/query: the query text is required; topK || 5.  One query is
\* served between two indexing requests: it changes no store, so a second
\* one would see what the first saw.
Query(topK, fault, response) ==
  /\ Settled
  /\ qres.status = "none"
  /\ IF fault \in {"embedding", "search"}
     THEN qres' = RunQuery(fault, <<>>, response, documents)
     ELSE \E matches \in VectorizeQuery(vectorize,
                                        IF topK = 0 THEN DefaultTopK ELSE topK) :
            qres' = RunQuery(fault, matches, response, documents)
  /\ UNCHANGED <<documents, vector_metadata, vectorize, run, prev, nRuns,
                 costdb, cres, chunker, upres, posts, call>>

\* getCostContext(projectId): the lookups a call makes depend on projectId,
\* so only those can raise.
CostContextCall(projectId, fault) ==
  /\ cres.status = "none"
  /\ fault \in {"project", "transportation", "installation"} => Truthy(projectId)
  /\ cres' = GetCostContext(costdb, projectId, fault)
  /\ UNCHANGED <<documents, vector_metadata, vectorize, run, prev, nRuns, qres,
                 costdb, chunker, upres, posts, call>>

\* chunkText, lines 211-213: the text is split and the locals initialised.
ChunkSplit ==
  /\ chunker.pc = "split"
  /\ chunker' = [chunker EXCEPT !.pc = "loop",
                                !.words = SplitWhitespace(chunker.text),
                                !.i = 0, !.chunks = <<>>]
  /\ UNCHANGED <<documents, vector_metadata, vectorize, run, prev, nRuns, qres,
                 costdb, cres, upres, posts, call>>

\* Lines 215-219: the test holds and the body runs once.
ChunkStep ==
  /\ chunker.pc = "loop"
  /\ LoopTest(chunker)
  /\ Len(chunker.chunks) < MaxChunks
  /\ chunker' = LoopBody(chunker)
  /\ UNCHANGED <<documents, vector_metadata, vectorize, run, prev, nRuns, qres,
                 costdb, cres, upres, posts, call>>

\* Lines 215 and 221: the test fails and the chunks are returned.
ChunkReturn ==
  /\ chunker.pc = "loop"
  /\ ~LoopTest(chunker)
  /\ chunker' = [chunker EXCEPT !.pc = "done"]
  /\ UNCHANGED <<documents, vector_metadata, vectorize, run, prev, nRuns, qres,
                 costdb, cres, upres, posts, call>>

Init ==
  /\ documents = <<>>
  /\ vector_metadata = EmptyBag
  /\ vectorize = [id \in {} |-> 0]
  /\ run = IdleRun
  /\ prev = NoRun
  /\ nRuns = 0
  /\ qres = NoQuery
  /\ costdb = NoCosts
  /\ cres = NoCostCall
  /\ upres = NoUpload
  /\ posts = NoPosts
  /\ call = NoCall
  /\ chunker = IdleChunker

\* The requests that write to the stores, step by step.
NextIndexing ==
  \/ \E f \in Filenames, k \in UploadKinds, t \in TextInputs : UploadDocument(f, k, t)
  \/ \E d \in 1..MaxDocs, t \in TextInputs, m \in MetadataInputs : ManualIndex(d, t, m)
  \/ IndexEmbed
  \/ IndexInsert
  \/ IndexStoreMetadata
  \/ IndexUpdateStatus
  \/ IndexFail

Next == NextIndexing \/ UploadFail

Spec == Init /\ [][Next]_vars

\* Queries against the stores left by a few indexing runs.
NextQuery ==
  \/ NextIndexing /\ nRuns' <= QueryRuns
  \/ \E k \in TopKInputs, f \in Faults, r \in ResponseInputs :
       /\ f # "none" => r = <<>>
       /\ Query(k, f, r)

\* The queries run with cost records in the cost tables.
InitQuery ==
  /\ documents = <<>>
  /\ vector_metadata = EmptyBag
  /\ vectorize = [id \in {} |-> 0]
  /\ run = IdleRun
  /\ prev = NoRun
  /\ nRuns = 0
  /\ qres = NoQuery
  /\ costdb = [production |-> <<100, 201>>,
               projects |-> <<[name |-> "Site A", total_estimated_cost |-> 5000,
                               total_actual_cost |-> 1200]>>,
               transportation |-> <<[project_id |-> 1, total_cost |-> 700]>>,
               installation |-> <<[project_id |-> 1, total_cost |-> 500]>>]
  /\ cres = NoCostCall
  /\ upres = NoUpload
  /\ posts = NoPosts
  /\ call = NoCall
  /\ chunker = IdleChunker

SpecQuery == InitQuery /\ [][NextQuery]_vars

\* Queries against an index filled by POST /api/query/index requests whose
\* metadata names a key of the vector metadata.
NextTagged ==
  \/ /\ \E d \in 1..MaxDocs, t \in TextInputs, m \in OverridingMetadataInputs :
          ManualIndex(d, t, m)
     /\ nRuns' <= QueryRuns
  \/ IndexEmbed
  \/ IndexInsert
  \/ IndexStoreMetadata
  \/ IndexUpdateStatus
  \/ IndexFail
  \/ \E k \in TopKInputs, f \in Faults, r \in ResponseInputs :
       /\ f # "none" => r = <<>>
       /\ Query(k, f, r)

SpecTagged == InitQuery /\ [][NextTagged]_vars

\* getCostContext against every content of the cost tables.
InitCost ==
  /\ documents = <<>>
  /\ vector_metadata = EmptyBag
  /\ vectorize = [id \in {} |-> 0]
  /\ run = IdleRun
  /\ prev = NoRun
  /\ nRuns = 0
  /\ qres = NoQuery
  /\ costdb \in CostDbInputs
  /\ cres = NoCostCall
  /\ upres = NoUpload
  /\ posts = NoPosts
  /\ call = NoCall
  /\ chunker = IdleChunker

NextCost == \E p \in ProjectIdInputs, f \in CostFaults : CostContextCall(p, f)

SpecCost == InitCost /\ [][NextCost]_vars

\* chunkText on every small input.
InitChunk ==
  /\ documents = <<>>
  /\ vector_metadata = EmptyBag
  /\ vectorize = [id \in {} |-> 0]
  /\ run = IdleRun
  /\ prev = NoRun
  /\ nRuns = 0
  /\ qres = NoQuery
  /\ costdb = NoCosts
  /\ cres = NoCostCall
  /\ upres = NoUpload
  /\ posts = NoPosts
  /\ call = NoCall
  /\ \E t \in ChunkTextInputs, n \in ChunkSizeInputs, k \in OverlapInputs :
       chunker = EnterChunkText(t, n, k)

NextChunk == ChunkSplit \/ ChunkStep \/ ChunkReturn

SpecChunk == InitChunk /\ [][NextChunk]_vars

----------------------------------------------------------------------------
(* Vocabulary of the properties *)

KeyOf(d, i) == "doc_" \o ToString(d) \o "_chunk_" \o ToString(i)

ChunkRecord(d, i, chunks) ==
  [document_id |-> d, chunk_index |-> i, chunk_text |-> chunks[i + 1],
   vector_id |-> KeyOf(d, i)]

\* The distinct Chunk Records of document d, and how many rows they make.
RecordsOf(d) == {r \in BagToSet(vector_metadata) : r.document_id = d}
RecordCount(d) ==
  BagCardinality([r \in RecordsOf(d) |-> CopiesIn(r, vector_metadata)])

\* The Vector Entries of document d.
KeysOf(d) ==
  {id \in DOMAIN vectorize :
     \E i \in 0..Cardinality(DOMAIN vectorize) : id = KeyOf(d, i)}

RunKeys(r) == {KeyOf(r.documentId, i) : i \in 0..(Len(r.chunks) - 1)}

InFlight == run.pc \in {"embed", "insert", "metadata", "status"}

DocumentExists(d) == d \in 1..Len(documents)

\* A row of documents that existed before the step is changed by it.
DocumentRowChanged ==
  \E id \in 1..Len(documents) : documents'[id] # documents[id]

----------------------------------------------------------------------------
(* C1: a successful indexDocument whose text yields N chunks creates exactly
   N Chunk Records, one per step and each with the next index 0..N-1, the
   vector id doc_<id>_chunk_<i> and the i-th chunk text, and writes exactly
   the N vector keys doc_<id>_chunk_0..N-1. *)
C1_IndexCreatesChunksAndVectors ==
  [][/\ InFlight => /\ run'.documentId = run.documentId
                    /\ run'.chunks = run.chunks
     /\ vector_metadata' # vector_metadata =>
          /\ InFlight
          /\ run.i < Len(run.chunks)
          /\ vector_metadata' =
               vector_metadata
                 (+) SetToBag({ChunkRecord(run.documentId, run.i, run.chunks)})
          /\ run'.i = run.i + 1
     /\ run'.i # run.i =>
          \/ vector_metadata' # vector_metadata
          \/ run'.i = 0 /\ run'.pc \in {"embed", "idle"}
     /\ vectorize' # vectorize =>
          /\ InFlight
          /\ DOMAIN vectorize' = DOMAIN vectorize \cup RunKeys(run)
     /\ (run'.pc = "done" /\ run.pc # "done") =>
          /\ run'.i = Len(run.chunks)
          /\ Len(run'.vectors) = Len(run.chunks)
          /\ \A i \in 0..(Len(run.chunks) - 1) :
               /\ run'.vectors[i + 1].id = KeyOf(run.documentId, i)
               /\ KeyOf(run.documentId, i) \in DOMAIN vectorize'
               /\ BagIn(ChunkRecord(run.documentId, i, run.chunks), vector_metadata')
               /\ \A j \in 0..(Len(run.chunks) - 1) :
                    i # j => KeyOf(run.documentId, i) # KeyOf(run.documentId, j)
    ]_vars

C1_Witness ==
  /\ run.pc = "done"
  /\ Len(run.chunks) = 2
  /\ RecordCount(run.documentId) = 2

(* C2: when a document is indexed and then indexed again with the same chunk
   count N, the second run overwrites the vector entries (same keys, the
   entries are those of the second run) and appends N Chunk Records: N
   vector entries and 2N Chunk Records. *)
C2_ReindexOverwritesAndAppends ==
  (/\ nRuns = 2
   /\ run.pc = "done"
   /\ prev.outcome = "done"
   /\ prev.documentId = run.documentId
   /\ Len(prev.chunks) = Len(run.chunks))
  => /\ KeysOf(run.documentId) = RunKeys(run)
     /\ Cardinality(KeysOf(run.documentId)) = Len(run.chunks)
     /\ \A k \in 1..Len(run.chunks) :
          vectorize[KeyOf(run.documentId, k - 1)] =
            [values |-> run.vectors[k].values,
             metadata |-> run.vectors[k].metadata]
     /\ RecordCount(run.documentId) = 2 * Len(run.chunks)

C2_Witness ==
  /\ nRuns = 2
  /\ run.pc = "done"
  /\ prev.outcome = "done"
  /\ prev.documentId = run.documentId
  /\ Len(prev.chunks) = 2
  /\ Len(run.chunks) = 2
  /\ run.via = "manual"
  /\ DocumentExists(run.documentId)
  /\ RecordCount(run.documentId) = 4

(* C3 as stated: whenever no call is in flight, every Vector Entry has
   exactly one Chunk Record with its vector id and every Chunk Record has
   exactly one Vector Entry. *)
C3_OneToOne ==
  ~InFlight =>
    /\ \A id \in DOMAIN vectorize :
         BagCardinality([r \in {x \in BagToSet(vector_metadata) : x.vector_id = id}
                           |-> CopiesIn(r, vector_metadata)]) = 1
    /\ \A r \in BagToSet(vector_metadata) :
         /\ CopiesIn(r, vector_metadata) = 1
         /\ r.vector_id \in DOMAIN vectorize

(* C3 amended: every Chunk Record has exactly one Vector Entry, the one keyed
   by its vector id doc_<document id>_chunk_<chunk index>; a Vector Entry may
   have no Chunk Record (a run in flight or failed after the vector write) or
   several (re-indexing). *)
C3_RecordHasItsEntry ==
  \A r \in BagToSet(vector_metadata) :
    /\ r.vector_id = KeyOf(r.document_id, r.chunk_index)
    /\ r.vector_id \in DOMAIN vectorize
    /\ Cardinality({id \in DOMAIN vectorize : id = r.vector_id}) = 1

C3_Witness ==
  /\ ~InFlight
  /\ \E r \in BagToSet(vector_metadata) : CopiesIn(r, vector_metadata) = 2
  /\ \E id \in DOMAIN vectorize :
       \A r \in BagToSet(vector_metadata) : r.vector_id # id

(* C4: a Document whose indexed flag is true has at least one Chunk Record,
   in every reachable state, whatever runs failed. *)
C4_IndexedHasChunk ==
  \A id \in 1..Len(documents) :
    documents[id].vector_indexed => RecordCount(id) >= 1

C4_Witness ==
  /\ run.pc = "failed"
  /\ DocumentExists(run.documentId)
  /\ documents[run.documentId].vector_indexed
  /\ RecordCount(run.documentId) = 1

(* C5: the chunk indices among a document's Chunk Records are 0..M-1 for
   some M, in every reachable state. *)
C5_IndicesContiguous ==
  \A d \in 1..MaxDocs :
    LET indices == {r.chunk_index : r \in RecordsOf(d)}
    IN indices = 0..(Cardinality(indices) - 1)

C5_Witness ==
  /\ run.pc = "failed"
  /\ Len(run.chunks) = 2
  /\ run.i = 1
  /\ prev.outcome = "done"
  /\ prev.documentId = run.documentId
  /\ {r.chunk_index : r \in RecordsOf(run.documentId)} = {0, 1}

(* C6: within one run the vector batch is written first, then the Chunk
   Records in index order, then the Document is marked indexed with the
   handle doc_<id>; each step finds the earlier ones done, and a run that
   failed never sets the flag. *)
C6_StepOrder ==
  [][/\ vectorize' # vectorize =>
          /\ InFlight
          /\ run.i = 0
          /\ vector_metadata' = vector_metadata
          /\ ~DocumentRowChanged
     /\ vector_metadata' # vector_metadata =>
          /\ InFlight
          /\ RunKeys(run) \subseteq DOMAIN vectorize
          /\ \A j \in 0..(run.i - 1) :
               BagIn(ChunkRecord(run.documentId, j, run.chunks), vector_metadata)
          /\ BagIn(ChunkRecord(run.documentId, run.i, run.chunks), vector_metadata')
          /\ ~DocumentRowChanged
     /\ DocumentRowChanged =>
          /\ InFlight
          /\ run'.pc = "done"
          /\ RunKeys(run) \subseteq DOMAIN vectorize
          /\ \A j \in 0..(Len(run.chunks) - 1) :
               BagIn(ChunkRecord(run.documentId, j, run.chunks), vector_metadata)
          /\ \A id \in 1..Len(documents) :
               documents'[id] # documents[id] =>
                 /\ id = run.documentId
                 /\ documents'[id] =
                      [documents[id] EXCEPT
                         !.vector_indexed = TRUE,
                         !.vector_id = "doc_" \o ToString(id)]
     /\ (run'.pc = "done" /\ run.pc # "done") =>
          /\ run.i = Len(run.chunks)
          /\ DocumentExists(run.documentId) =>
               /\ documents'[run.documentId].vector_indexed
               /\ documents'[run.documentId].vector_id =
                    "doc_" \o ToString(run.documentId)
     /\ (run'.pc = "failed" \/ run.pc = "failed") => ~DocumentRowChanged
    ]_vars

C6_Witness ==
  /\ run.pc = "done"
  /\ Len(run.chunks) = 2
  /\ DocumentExists(run.documentId)
  /\ documents[run.documentId].vector_id = "doc_1"

(* C7: when a step of indexDocument raises, the call raises the one generic
   error 'Failed to index document', undoes nothing (the writes made before
   the failing step remain) and executes no later step. *)
C7_FailureKeepsWrites ==
  [][/\ (run'.pc = "failed" /\ run.pc # "failed") =>
          /\ InFlight
          /\ run'.error = "Failed to index document"
          /\ documents' = documents
          /\ vector_metadata' = vector_metadata
          /\ vectorize' = vectorize
     /\ run.pc = "failed" =>
          /\ vector_metadata' = vector_metadata
          /\ vectorize' = vectorize
          /\ ~DocumentRowChanged
     /\ run'.pc # "failed" => run'.error = Null
    ]_vars

C7_Witness ==
  /\ run.pc = "failed"
  /\ run.error = "Failed to index document"
  /\ Len(run.chunks) = 2
  /\ run.i = 1
  /\ prev.outcome = "none"
  /\ BagIn(ChunkRecord(run.documentId, 0, run.chunks), vector_metadata)
  /\ RunKeys(run) \subseteq DOMAIN vectorize

(* C8: after a run that failed, a re-run with the same document id and text
   that succeeds leaves the document flagged indexed, its vector entries
   exactly the keys doc_<id>_chunk_0..N-1, and each of them with at least one
   Chunk Record. *)
C8_RetryRecovers ==
  (/\ run.pc = "done"
   /\ prev.outcome = "failed"
   /\ prev.documentId = run.documentId
   /\ prev.chunks = run.chunks
   /\ DocumentExists(run.documentId))
  => /\ documents[run.documentId].vector_indexed
     /\ KeysOf(run.documentId) = RunKeys(run)
     /\ \A id \in KeysOf(run.documentId) :
          \E r \in RecordsOf(run.documentId) : r.vector_id = id

----------------------------------------------------------------------------
(* Properties of query, checked under SpecQuery *)

\* The sources a list of matches gives rise to: one per match whose entry
\* names a document, in the order of the matches.
NamedMatches(matches) ==
  SelectSeq(matches, LAMBDA m : vectorize[m.id].metadata.document_id # 0)

SourceOf(m) ==
  LET owner == vectorize[m.id].metadata.document_id
  IN [document |-> IF DocumentExists(owner) THEN documents[owner].filename
                   ELSE "Unknown",
      relevance |-> m.score,
      chunk_text |-> vectorize[m.id].metadata.chunk_text]

SourcesFromMatches ==
  /\ Len(qres.sources) = Len(NamedMatches(qres.matches))
  /\ \A k \in 1..Len(qres.sources) :
       qres.sources[k] = SourceOf(NamedMatches(qres.matches)[k])

AbsorbedGenerationFailure ==
  /\ qres.status = "returned"
  /\ qres.error = Null
  /\ qres.generationCalls = 1
  /\ qres.answer = <<"an error occurred while generating the answer, please try again">>

(* C9 as stated: when only the text-generation call raises, query returns a
   result with the fixed fallback answer and a non-empty sources list derived
   from the retrieval matches. *)
C9_FallbackWithNonEmptySources ==
  qres.fault = "generation" =>
    /\ AbsorbedGenerationFailure
    /\ SourcesFromMatches
    /\ qres.sources # <<>>

(* C9 amended: when only the text-generation call raises, query does not
   raise; it returns a result with the fixed fallback answer and one source
   per retrieved match whose metadata names a document, in order, so the
   sources list is empty when retrieval returned no such match. *)
C9_FallbackWithRetrievedSources ==
  qres.fault = "generation" =>
    /\ AbsorbedGenerationFailure
    /\ SourcesFromMatches
    /\ (qres.sources # <<>>) <=> (NamedMatches(qres.matches) # <<>>)

C9_Witness ==
  /\ qres.fault = "generation"
  /\ qres.status = "returned"
  /\ Len(qres.sources) = 2
  /\ qres.sources[1].document = "a.txt"
  /\ qres.sources[1].chunk_text # qres.sources[2].chunk_text

(* C10: when embedding the query or the similarity search raises, query
   raises the one generic error 'Failed to process query', returns no result
   and makes no text-generation call. *)
C10_RetrievalFailureRaises ==
  qres.fault \in {"embedding", "search"} =>
    /\ qres.status = "raised"
    /\ qres.error = "Failed to process query"
    /\ qres.answer = <<>>
    /\ qres.sources = <<>>
    /\ ~qres.cost_breakdown.present
    /\ qres.generationCalls = 0

C10_Witness ==
  /\ qres.fault = "search"
  /\ qres.status = "raised"
  /\ DOMAIN vectorize # {}

(* C11: query is read-only: whatever the input and the outcome (a result,
   an absorbed generation failure or a raised failure), a query call leaves
   the Documents, the Chunk Records, the cost records and the Vector Entries
   as they were. *)
C11_QueryReadOnly ==
  [][qres'.status # "none" /\ qres' # qres
       => /\ documents' = documents
          /\ vector_metadata' = vector_metadata
          /\ vectorize' = vectorize
          /\ costdb' = costdb]_vars

C11_Witness ==
  /\ qres.status = "returned"
  /\ qres.fault = "generation"
  /\ qres.sources # <<>>
  /\ documents # <<>>
  /\ vector_metadata # EmptyBag
  /\ costdb.transportation # <<>>

(* C12: the sources returned by query are one per match returned by the
   index, in the order the index returned them, each with that match's score
   and chunk text and the filename of the owning document. *)
C12_OneSourcePerMatch ==
  qres.status = "returned" =>
    /\ Len(qres.sources) = Len(qres.matches)
    /\ \A k \in 1..Len(qres.matches) :
         /\ k <= Len(qres.sources)
         /\ qres.sources[k] = SourceOf(qres.matches[k])

\* Where the labelled numeric pattern of a label occurs in an answer: the
\* label at p, then separators up to s, then digits and commas up to e.
PatternAt(answer, label, p, s, e) ==
  /\ answer[p] = label
  /\ p + 1 < s /\ s <= e
  /\ \A k \in (p + 1)..(s - 1) : answer[k] \in {":", " "}
  /\ \A k \in s..e : answer[k] \in DigitAtoms \cup {","}

PatternOccurs(answer, label) ==
  \E p, s, e \in 1..Len(answer) : PatternAt(answer, label, p, s, e)

\* The number of the leftmost, longest occurrence, read without its commas.
DecimalValue(digits) ==
  LET RECURSIVE Value(_)
      Value(k) == IF k = 0 THEN 0 ELSE 10 * Value(k - 1) + DigitValue(digits[k])
  IN Value(Len(digits))

MatchedDigits(answer, label) ==
  LET occurrences == {t \in (1..Len(answer)) \X (1..Len(answer)) \X (1..Len(answer)) :
                        PatternAt(answer, label, t[1], t[2], t[3])}
      first == CHOOSE t \in occurrences :
                 \A u \in occurrences :
                   t[1] < u[1] \/ (t[1] = u[1] /\ t[2] = u[2] /\ t[3] >= u[3])
  IN SelectSeq(SubSeq(answer, first[2], first[3]), LAMBDA c : c \in DigitAtoms)

(* C13: the breakdown extracted from an answer contains exactly the fields
   (material, labor, overhead, total) whose labelled numeric pattern occurs
   in the answer, each with the matched number read without its thousands
   separators ("total: 8,500" gives {total: 8500}), and there is no breakdown
   object when no pattern occurs. *)
C13_BreakdownOfMatchedFields ==
  qres.status = "returned" =>
    LET occurring == {f \in DOMAIN CostLabels :
                        PatternOccurs(qres.answer, CostLabels[f])}
    IN /\ qres.cost_breakdown.present <=> occurring # {}
       /\ qres.cost_breakdown.present =>
            /\ DOMAIN qres.cost_breakdown.fields = occurring
            /\ \A f \in occurring :
                 /\ ~qres.cost_breakdown.fields[f].nan
                 /\ MatchedDigits(qres.answer, CostLabels[f]) # <<>>
                 /\ qres.cost_breakdown.fields[f].value =
                      DecimalValue(MatchedDigits(qres.answer, CostLabels[f]))

----------------------------------------------------------------------------
(* Properties of chunkText, checked under SpecChunk *)

PlainText(n) == [lead |-> FALSE, words |-> [k \in 1..n |-> k], trail |-> FALSE]

(* C14: chunk("a b c d e f g h", 4, 2) returns exactly the three chunks
   "a b c d", "c d e f", "e f g h". *)
C14_EightWordsThreeChunks ==
  (/\ chunker.pc = "done"
   /\ chunker.text = PlainText(8)
   /\ chunker.chunkSize = 4
   /\ chunker.overlap = 2)
  => chunker.chunks = << <<1, 2, 3, 4>>, <<3, 4, 5, 6>>, <<5, 6, 7, 8>> >>

\* The chunks put back together: the first chunk, then every later chunk
\* without its first k words.
RECURSIVE Rejoin(_, _)
Rejoin(chunks, k) ==
  IF chunks = <<>> THEN <<>>
  ELSE LET last == chunks[Len(chunks)]
       IN IF Len(chunks) = 1 THEN last
          ELSE Rejoin(SubSeq(chunks, 1, Len(chunks) - 1), k)
               \o SubSeq(last, k + 1, Len(last))

\* The words of a text as split(/\s+/) gives them.
WordsOf(text) ==
  LET n == Len(text.words)
      before == IF text.lead \/ n = 0 THEN 1 ELSE 0
      after == IF text.trail /\ n > 0 THEN 1 ELSE IF text.lead /\ n = 0 THEN 1 ELSE 0
  IN [k \in 1..(before + n + after) |->
        IF k <= before \/ k > before + n THEN 0 ELSE text.words[k - before]]

(* C15: for a chunkSize n and an overlap k < n, chunkText returns at least one
   chunk, and the first chunk followed by every later chunk without its first
   k words is the word sequence of the text. *)
C15_ChunksRebuildWords ==
  (chunker.pc = "done" /\ chunker.overlap < chunker.chunkSize)
  => /\ Len(chunker.chunks) >= 1
     /\ Rejoin(chunker.chunks, chunker.overlap) = WordsOf(chunker.text)

C15_Witness ==
  /\ chunker.pc = "done"
  /\ chunker.overlap = 2
  /\ chunker.chunkSize = 3
  /\ Len(chunker.chunks) >= 4
  /\ chunker.text.lead

(* C16: chunkText terminates whatever its arguments, overlap >= chunkSize
   included: every pass of the loop moves the window start forward by at
   least one word. *)
C16_WindowAdvances ==
  [][(chunker.pc = "loop" /\ chunker'.pc = "loop")
       => chunker'.i >= chunker.i + 1]_vars

(* C17: a text of at least one and at most chunkSize words, chunked with an
   overlap below chunkSize, gives exactly one chunk. *)
C17_ShortTextOneChunk ==
  (/\ chunker.pc = "done"
   /\ ~chunker.text.lead /\ ~chunker.text.trail
   /\ Len(chunker.text.words) >= 1
   /\ Len(chunker.text.words) <= chunker.chunkSize
   /\ chunker.overlap < chunker.chunkSize)
  => Len(chunker.chunks) = 1

----------------------------------------------------------------------------
(* Properties of getCostContext, checked under SpecCost *)

HasLine(kind) == \E k \in 1..Len(cres.context) : cres.context[k].line = kind

ProjectGiven == cres.projectId # 0
ProjectResolves == ProjectGiven /\ cres.projectId \in 1..Len(costdb.projects)

HasTransportation ==
  \E k \in 1..Len(costdb.transportation) :
    costdb.transportation[k].project_id = cres.projectId
HasInstallation ==
  \E k \in 1..Len(costdb.installation) :
    costdb.installation[k].project_id = cres.projectId

\* No table holds anything the call could report.
NothingToReport ==
  /\ costdb.production = <<>>
  /\ ProjectGiven => (~ProjectResolves /\ ~HasTransportation /\ ~HasInstallation)

(* C18: getCostContext never returns an empty text; when no cost record and
   no resolvable project contributes a line, and when every lookup fails, it
   returns the fixed "no cost data" sentinel. *)
C18_NeverEmptyContext ==
  cres.status # "none" =>
    /\ cres.status = "returned"
    /\ cres.context # <<>>
    /\ (NothingToReport \/ cres.fault = "production")
         => cres.context = <<[line |-> "no cost data", name |-> "", amount |-> 0]>>

C18_Witness ==
  /\ cres.status = "returned"
  /\ cres.projectId = 2
  /\ cres.fault = "installation"
  /\ costdb.production = <<>>
  /\ costdb.transportation # <<>>
  /\ cres.context = <<[line |-> "no cost data", name |-> "", amount |-> 0]>>

(* C19: getCostContext never raises, and a lookup that fails removes only
   the line that depends on it: every line whose own lookup does not fail is
   still in the returned context. *)
C19_FailureRemovesOneLine ==
  cres.status # "none" =>
    /\ cres.status = "returned"
    /\ (cres.fault # "production" /\ costdb.production # <<>>)
         => HasLine("average production cost per unit")
    /\ (cres.fault # "project" /\ ProjectResolves) => HasLine("project")
    /\ (cres.fault # "transportation" /\ ProjectGiven /\ HasTransportation)
         => HasLine("average transportation cost")
    /\ (cres.fault # "installation" /\ ProjectGiven /\ HasInstallation)
         => HasLine("average installation cost")

\* The amount printed by toFixed(2) for the average of the rows of a project.
IsAverageOf(amount, rows) ==
  LET mine == SelectSeq(rows, LAMBDA r : r.project_id = cres.projectId)
      total == Sum([k \in 1..Len(mine) |-> mine[k].total_cost])
  IN /\ 2 * Len(mine) * amount <= 200 * total + Len(mine)
     /\ 2 * Len(mine) * amount > 200 * total - Len(mine)

(* C20: the project lines (name, estimated and actual totals, average
   transportation cost, average installation cost) are in the context only
   when projectId is given and resolves to a project, and each average line
   only when a record of that kind exists for the project; without a
   projectId, or with one that resolves to no project, none of them is. *)
C20_ProjectLinesOnlyForProject ==
  cres.status = "returned" =>
    /\ \A k \in 1..Len(cres.context) :
         cres.context[k].line \in {"project", "estimated cost", "actual cost",
                                   "average transportation cost",
                                   "average installation cost"}
           => ProjectResolves
    /\ HasLine("average transportation cost") => HasTransportation
    /\ HasLine("average installation cost") => HasInstallation
    /\ (cres.fault = "none" /\ ProjectResolves) =>
         /\ \E k \in 1..Len(cres.context) :
              /\ cres.context[k].line = "project"
              /\ cres.context[k].name = costdb.projects[cres.projectId].name
         /\ \E k \in 1..Len(cres.context) :
              /\ cres.context[k].line = "estimated cost"
              /\ cres.context[k].amount =
                   costdb.projects[cres.projectId].total_estimated_cost
         /\ \E k \in 1..Len(cres.context) :
              /\ cres.context[k].line = "actual cost"
              /\ cres.context[k].amount =
                   costdb.projects[cres.projectId].total_actual_cost
         /\ HasTransportation =>
              \E k \in 1..Len(cres.context) :
                /\ cres.context[k].line = "average transportation cost"
                /\ IsAverageOf(cres.context[k].amount, costdb.transportation)
         /\ HasInstallation =>
              \E k \in 1..Len(cres.context) :
                /\ cres.context[k].line = "average installation cost"
                /\ IsAverageOf(cres.context[k].amount, costdb.installation)

C20_Witness ==
  /\ cres.status = "returned"
  /\ cres.fault = "none"
  /\ cres.projectId = 1
  /\ HasLine("project")
  /\ HasLine("average transportation cost")
  /\ ~HasLine("average installation cost")
  /\ Len(costdb.transportation) = 2

----------------------------------------------------------------------------
\* C21: every vector entry indexDocument builds at chunk position i carries,
\* in its metadata, the document id of the call, the chunk index i and the
\* text of the i-th chunk, whatever keys the caller's metadata has.
C21_MetadataIdentifiesChunk ==
  \A k \in 1..Len(run.vectors) :
    /\ run.vectors[k].metadata.document_id = run.documentId
    /\ run.vectors[k].metadata.chunk_index = k - 1
    /\ run.vectors[k].metadata.chunk_text = run.chunks[k]

----------------------------------------------------------------------------
(* CostCalculator and EmbeddingService.cosineSimilarity *)

\* Vectors handed to cosineSimilarity have up to MaxDim components.
MaxDim == 2

RECURSIVE GCD(_, _)
GCD(a, b) == IF b = 0 THEN a ELSE GCD(b, a % b)

\* n / d of two integers.  A number that is not an integer is kept as a
\* fraction in lowest terms with a positive denominator; a denominator of
\* 0 is what a division by zero gives (Infinity, -Infinity or NaN by the
\* sign of the numerator).
Fraction(n, d) ==
  IF d = 0
  THEN [num |-> IF n > 0 THEN 1 ELSE IF n < 0 THEN -1 ELSE 0, den |-> 0]
  ELSE LET Abs(k) == IF k < 0 THEN -k ELSE k
           g == GCD(Abs(n), Abs(d))
           s == IF d < 0 THEN -1 ELSE 1
       IN [num |-> s * (n \div g), den |-> s * (d \div g)]

\* q * k of a quotient and an integer
Multiply(q, k) == Fraction(q.num * k, q.den)

\* Mutant: the per-unit cost divides the material cost alone.
CalculateProductionCostOfMaterial(input) ==
  [total |-> input.material_cost + input.labor_cost + input.overhead_cost,
   cost_per_unit |-> Fraction(input.material_cost, input.quantity),
   breakdown |-> [material |-> input.material_cost,
                  labor |-> input.labor_cost,
                  overhead |-> input.overhead_cost]]

CalculateProductionCost(input) ==
  LET total == input.material_cost + input.labor_cost + input.overhead_cost
      cost_per_unit == Fraction(total, input.quantity)
  IN [total |-> total,
      cost_per_unit |-> cost_per_unit,
      breakdown |-> [material |-> input.material_cost,
                     labor |-> input.labor_cost,
                     overhead |-> input.overhead_cost]]

\* Mutant: the percentage is divided out whatever the estimate is.
CalculateCostVarianceUnguarded(actualCost, estimatedCost) ==
  [variance |-> actualCost - estimatedCost,
   variancePercentage |->
     Multiply(Fraction(actualCost - estimatedCost, estimatedCost), 100),
   overBudget |-> actualCost - estimatedCost > 0]

CalculateCostVariance(actualCost, estimatedCost) ==
  LET variance == actualCost - estimatedCost
      variancePercentage ==
        IF estimatedCost = 0 THEN Fraction(0, 1)
        ELSE Multiply(Fraction(variance, estimatedCost), 100)
  IN [variance |-> variance,
      variancePercentage |-> variancePercentage,
      overBudget |-> variance > 0]

DimensionMismatch == "Embeddings must have the same dimensions"

\* The sums the loop of lines 249-253 accumulates over positions 1..n.
Products(a, b, n) == [i \in 1..n |-> a[i] * b[i]]

\* What a call of cosineSimilarity comes to: the error it throws, or the
\* quotient dotProduct / (sqrt(norm1) * sqrt(norm2)) it returns, kept as
\* its three terms (NaN when a norm is 0).
Thrown(error) ==
  [thrown |-> TRUE, error |-> error, dotProduct |-> 0, norm1 |-> 0,
   norm2 |-> 0, nan |-> FALSE]

Quotient(dotProduct, norm1, norm2) ==
  [thrown |-> FALSE, error |-> Null, dotProduct |-> dotProduct,
   norm1 |-> norm1, norm2 |-> norm2, nan |-> norm1 = 0 \/ norm2 = 0]

\* Mutant: the lengths are not compared and the loop runs over the first
\* vector; a missing component of the second multiplies to NaN.
CosineSimilarityUnchecked(embedding1, embedding2) ==
  LET n == Min(Len(embedding1), Len(embedding2))
      q == Quotient(Sum(Products(embedding1, embedding2, n)),
                    Sum(Products(embedding1, embedding1, Len(embedding1))),
                    Sum(Products(embedding2, embedding2, n)))
  IN [q EXCEPT !.nan = q.nan \/ Len(embedding2) < Len(embedding1)]

CosineSimilarity(embedding1, embedding2) ==
  IF Len(embedding1) # Len(embedding2)
  THEN Thrown(DimensionMismatch)
  ELSE LET n == Len(embedding1)
       IN Quotient(Sum(Products(embedding1, embedding2, n)),
                   Sum(Products(embedding1, embedding1, n)),
                   Sum(Products(embedding2, embedding2, n)))

\* Arguments of the calls
AmountInputs == {-10000, 0, 5000, 8000, 10000, 12000}

ProductionCostInputs ==
  [material_cost : {1000, 5000}, labor_cost : {500, 2000},
   overhead_cost : {300, 1000}, quantity : {0, 1, 3, 10}]

EmbeddingInputs == UNION {[1..n -> {-1, 0, 2}] : n \in 0..MaxDim}

EnterCall(fn, args) == [fn |-> fn, pc |-> "called", args |-> args, result |-> <<>>]

CallInputs ==
  {EnterCall("calculateCostVariance", <<a, e>>) :
     a \in AmountInputs, e \in AmountInputs}
  \cup {EnterCall("calculateProductionCost", <<i>>) : i \in ProductionCostInputs}
  \cup {EnterCall("cosineSimilarity", <<a, b>>) :
          a \in EmbeddingInputs, b \in EmbeddingInputs}

CostVarianceCall ==
  /\ call.fn = "calculateCostVariance"
  /\ call.pc = "called"
  /\ call' = [call EXCEPT
       !.pc = "returned",
       !.result = CalculateCostVariance(call.args[1], call.args[2])]
  /\ UNCHANGED <<documents, vector_metadata, vectorize, run, prev, nRuns, qres,
                 costdb, cres, chunker, upres, posts>>

ProductionCostCall ==
  /\ call.fn = "calculateProductionCost"
  /\ call.pc = "called"
  /\ call' = [call EXCEPT
       !.pc = "returned",
       !.result = CalculateProductionCost(call.args[1])]
  /\ UNCHANGED <<documents, vector_metadata, vectorize, run, prev, nRuns, qres,
                 costdb, cres, chunker, upres, posts>>

CosineSimilarityCall ==
  /\ call.fn = "cosineSimilarity"
  /\ call.pc = "called"
  /\ LET r == CosineSimilarity(call.args[1], call.args[2])
     IN call' = [call EXCEPT
          !.pc = IF r.thrown THEN "thrown" ELSE "returned",
          !.result = r]
  /\ UNCHANGED <<documents, vector_metadata, vectorize, run, prev, nRuns, qres,
                 costdb, cres, chunker, upres, posts>>

\* One call of a calculator function on every small input.
InitCalc ==
  /\ documents = <<>>
  /\ vector_metadata = EmptyBag
  /\ vectorize = [id \in {} |-> 0]
  /\ run = IdleRun
  /\ prev = NoRun
  /\ nRuns = 0
  /\ qres = NoQuery
  /\ costdb = NoCosts
  /\ cres = NoCostCall
  /\ chunker = IdleChunker
  /\ upres = NoUpload
  /\ posts = NoPosts
  /\ call \in CallInputs

NextCalc == CostVarianceCall \/ ProductionCostCall \/ CosineSimilarityCall

SpecCalc == InitCalc /\ [][NextCalc]_vars

\* C22: cosineSimilarity(a, b) throws the dimension-mismatch error whenever
\* the two vectors differ in length, and returns a value only when they
\* have the same length.
C22_MismatchThrows ==
  (call.fn = "cosineSimilarity" /\ call.pc # "called") =>
    /\ (call.pc = "thrown") <=> (Len(call.args[1]) # Len(call.args[2]))
    /\ call.pc = "thrown" => call.result.error = DimensionMismatch
    /\ call.pc = "returned" =>
         /\ ~call.result.thrown
         /\ call.result.norm1 =
              Sum([i \in 1..Len(call.args[1]) |-> call.args[1][i] * call.args[1][i]])

C22_Witness ==
  /\ call.fn = "cosineSimilarity"
  /\ call.pc = "thrown"
  /\ Len(call.args[1]) = 2
  /\ Len(call.args[2]) = 1

\* C23: calculateCostVariance(actual, estimated) returns
\* variance = actual - estimated, overBudget exactly when the variance is
\* positive, and the percentage variance / estimated * 100, or 0 when the
\* estimate is 0: 5000 against 0 gives 5000, 0 and over budget.
C23_VarianceOfActual ==
  (call.fn = "calculateCostVariance" /\ call.pc = "returned") =>
    LET actual == call.args[1]
        estimated == call.args[2]
        r == call.result
    IN /\ r.variance + estimated = actual
       /\ r.overBudget <=> (actual > estimated)
       /\ r.variancePercentage.den > 0
       /\ IF estimated = 0
          THEN r.variancePercentage.num = 0
          ELSE r.variancePercentage.num * estimated
                 = r.variance * 100 * r.variancePercentage.den
       /\ (actual = 5000 /\ estimated = 0) =>
            /\ r.variance = 5000
            /\ r.variancePercentage = [num |-> 0, den |-> 1]
            /\ r.overBudget

C23_Witness ==
  /\ call.fn = "calculateCostVariance"
  /\ call.pc = "returned"
  /\ call.args = <<5000, 0>>
  /\ call.result.overBudget

\* C24: for a quantity of at least 1, calculateProductionCost returns the
\* sum of the three costs as total, total / quantity as cost_per_unit and
\* the three costs unchanged as breakdown.
C24_ProductionTotals ==
  (/\ call.fn = "calculateProductionCost"
   /\ call.pc = "returned"
   /\ call.args[1].quantity >= 1) =>
    LET input == call.args[1]
        r == call.result
    IN /\ r.total - input.overhead_cost - input.labor_cost = input.material_cost
       /\ r.cost_per_unit.den > 0
       /\ r.cost_per_unit.num * input.quantity = r.total * r.cost_per_unit.den
       /\ r.breakdown.material = input.material_cost
       /\ r.breakdown.labor = input.labor_cost
       /\ r.breakdown.overhead = input.overhead_cost

C24_Witness ==
  /\ call.fn = "calculateProductionCost"
  /\ call.pc = "returned"
  /\ call.args[1] = [material_cost |-> 5000, labor_cost |-> 2000,
                     overhead_cost |-> 1000, quantity |-> 3]
  /\ call.result.cost_per_unit = [num |-> 8000, den |-> 3]

----------------------------------------------------------------------------
(* EmbeddingService.prepareText *)

\* text.replace(/\s+/g, ' ').trim(), then the control characters removed:
\* the words stay, separated by single spaces, with nothing before the
\* first or after the last (a word of the model has no control character
\* in it).
PrepareText(text) == [lead |-> FALSE, words |-> text.words, trail |-> FALSE]

\* Texts of POST /api/query/index with and without whitespace around them
RawTextInputs ==
  {[lead |-> l, words |-> <<1, 2, 3>>, trail |-> t] : l \in BOOLEAN, t \in BOOLEAN}

\* Indexing requests whose text is taken as it was sent.
NextRaw ==
  \/ \E d \in 1..MaxDocs, t \in RawTextInputs, m \in MetadataInputs :
       ManualIndex(d, t, m)
  \/ IndexEmbed
  \/ IndexInsert
  \/ IndexStoreMetadata
  \/ IndexUpdateStatus
  \/ IndexFail

SpecRaw == Init /\ [][NextRaw]_vars

\* C25: indexDocument normalizes the text before chunking it: the chunks it
\* embeds and stores are the chunks of the normalized text, so no stored
\* chunk starts with the empty word that leading whitespace splits off.
C25_ChunksOfNormalizedText ==
  /\ run.pc # "idle" =>
       \E t \in RawTextInputs :
         run.chunks = ChunkText(PrepareText(t), DefaultChunkSize, DefaultOverlap)
  /\ \A r \in BagToSet(vector_metadata) :
       r.chunk_text # <<>> => r.chunk_text[1] # EmptyWord
  /\ \A id \in DOMAIN vectorize :
       vectorize[id].metadata.chunk_text # <<>> =>
         vectorize[id].metadata.chunk_text[1] # EmptyWord

----------------------------------------------------------------------------
\* C26: after a successful re-index of a document whose new text yields
\* fewer chunks (M) than its previous successful index (N), the index holds
\* no entry of the document with chunk index M or more: the document's
\* entries are exactly doc_<id>_chunk_0 .. doc_<id>_chunk_(M-1).
C26_ShorterReindexLeavesNoStaleEntry ==
  (/\ run.pc = "done"
   /\ prev.outcome = "done"
   /\ prev.documentId = run.documentId
   /\ Len(run.chunks) < Len(prev.chunks))
  => /\ KeysOf(run.documentId) = RunKeys(run)
     /\ \A i \in Len(run.chunks)..(Len(prev.chunks) - 1) :
          KeyOf(run.documentId, i) \notin DOMAIN vectorize

----------------------------------------------------------------------------
(* POST /api/costs/transportation and POST /api/costs/installation *)

\* A missing or zero field of a body is 0 (both fail the !field test).
CalculateTransportationCost(input) ==
  [total |-> input.fuel_cost + input.driver_cost + input.toll_fees,
   breakdown |-> [fuel |-> input.fuel_cost, driver |-> input.driver_cost,
                  toll_fees |-> input.toll_fees]]

CalculateInstallationCost(input) ==
  [total |-> input.labor_cost + input.equipment_cost + input.crane_cost,
   breakdown |-> [labor |-> input.labor_cost,
                  equipment |-> input.equipment_cost,
                  crane |-> input.crane_cost]]

\* INSERT INTO transportation_costs / installation_costs
CreateTransportationCost(db, cost) ==
  [db EXCEPT !.transportation = Append(db.transportation, cost)]

CreateInstallationCost(db, cost) ==
  [db EXCEPT !.installation = Append(db.installation, cost)]

\* Mutant: the subquery reads the transportation costs only.
UpdateProjectCostsOfTransportation(db, projectId) ==
  [db EXCEPT !.projects =
     [id \in 1..Len(db.projects) |->
        IF id = projectId
        THEN [db.projects[id] EXCEPT !.total_actual_cost =
                Sum(TotalCosts(CostsOfProject(db.transportation, projectId)))]
        ELSE db.projects[id]]]

\* One UPDATE statement: the project's total becomes the sum, at that
\* moment, of its transportation and installation costs.
UpdateProjectCosts(db, projectId) ==
  [db EXCEPT !.projects =
     [id \in 1..Len(db.projects) |->
        IF id = projectId
        THEN [db.projects[id] EXCEPT !.total_actual_cost =
                Sum(TotalCosts(CostsOfProject(db.transportation, projectId)))
                + Sum(TotalCosts(CostsOfProject(db.installation, projectId)))]
        ELSE db.projects[id]]]

\* Request bodies; distance_km, vehicle_type, duration_hours and date are
\* present in each.
TransportationBodies ==
  [project_id : {1, 2}, fuel_cost : {300}, driver_cost : {0, 400},
   toll_fees : {0, 50}]

InstallationBodies ==
  [project_id : {0, 1}, labor_cost : {600}, equipment_cost : {200},
   crane_cost : {0, 1000}]

\* Lines 112-128: the body is read, validated and the total calculated.
PostTransportation(r, body) ==
  /\ posts[r].pc = "idle"
  /\ posts' = [posts EXCEPT ![r] =
       IF ~Truthy(body.project_id) \/ ~Truthy(body.fuel_cost)
          \/ ~Truthy(body.driver_cost)
       THEN [pc |-> "rejected", kind |-> "transportation",
             project_id |-> body.project_id, total |-> 0, status |-> 400]
       ELSE [pc |-> "create", kind |-> "transportation",
             project_id |-> body.project_id,
             total |-> CalculateTransportationCost(body).total, status |-> 0]]
  /\ UNCHANGED <<documents, vector_metadata, vectorize, run, prev, nRuns, qres,
                 costdb, cres, chunker, upres, call>>

\* Lines 210-226
PostInstallation(r, body) ==
  /\ posts[r].pc = "idle"
  /\ posts' = [posts EXCEPT ![r] =
       IF ~Truthy(body.project_id) \/ ~Truthy(body.labor_cost)
          \/ ~Truthy(body.equipment_cost)
       THEN [pc |-> "rejected", kind |-> "installation",
             project_id |-> body.project_id, total |-> 0, status |-> 400]
       ELSE [pc |-> "create", kind |-> "installation",
             project_id |-> body.project_id,
             total |-> CalculateInstallationCost(body).total, status |-> 0]]
  /\ UNCHANGED <<documents, vector_metadata, vectorize, run, prev, nRuns, qres,
                 costdb, cres, chunker, upres, call>>

\* Lines 131-141 and 229-238: the cost row is inserted; its project exists
\* (FOREIGN KEY), or the statement raises.
PostCreate(r) ==
  /\ posts[r].pc = "create"
  /\ posts[r].project_id \in 1..Len(costdb.projects)
  /\ LET cost == [project_id |-> posts[r].project_id,
                  total_cost |-> posts[r].total]
     IN costdb' = IF posts[r].kind = "transportation"
                  THEN CreateTransportationCost(costdb, cost)
                  ELSE CreateInstallationCost(costdb, cost)
  /\ posts' = [posts EXCEPT ![r].pc = "update"]
  /\ UNCHANGED <<documents, vector_metadata, vectorize, run, prev, nRuns, qres,
                 cres, chunker, upres, call>>

\* Lines 144-157 and 241-254: the project total is updated and 201 returned.
PostUpdate(r) ==
  /\ posts[r].pc = "update"
  /\ costdb' = UpdateProjectCosts(costdb, posts[r].project_id)
  /\ posts' = [posts EXCEPT ![r].pc = "done", ![r].status = 201]
  /\ UNCHANGED <<documents, vector_metadata, vectorize, run, prev, nRuns, qres,
                 cres, chunker, upres, call>>

\* Lines 158-169 and 255-266: an awaited statement raises and 500 is returned.
PostFail(r) ==
  /\ posts[r].pc \in {"create", "update"}
  /\ posts' = [posts EXCEPT ![r].pc = "failed", ![r].status = 500]
  /\ UNCHANGED <<documents, vector_metadata, vectorize, run, prev, nRuns, qres,
                 costdb, cres, chunker, upres, call>>

\* Two projects, the first with one transportation and one installation
\* cost already recorded and its total up to date.
InitPosts ==
  /\ documents = <<>>
  /\ vector_metadata = EmptyBag
  /\ vectorize = [id \in {} |-> 0]
  /\ run = IdleRun
  /\ prev = NoRun
  /\ nRuns = 0
  /\ qres = NoQuery
  /\ costdb = [production |-> <<>>,
               projects |-> <<[name |-> "Site A", total_estimated_cost |-> 5000,
                               total_actual_cost |-> 1200],
                              [name |-> "Site B", total_estimated_cost |-> 0,
                               total_actual_cost |-> 0]>>,
               transportation |-> <<[project_id |-> 1, total_cost |-> 700]>>,
               installation |-> <<[project_id |-> 1, total_cost |-> 500]>>]
  /\ cres = NoCostCall
  /\ chunker = IdleChunker
  /\ upres = NoUpload
  /\ posts = NoPosts
  /\ call = NoCall

\* The requests are served concurrently: their steps interleave.
NextPosts ==
  \E r \in 1..MaxPosts :
    \/ \E b \in TransportationBodies : PostTransportation(r, b)
    \/ \E b \in InstallationBodies : PostInstallation(r, b)
    \/ PostCreate(r)
    \/ PostUpdate(r)
    \/ PostFail(r)

SpecPosts == InitPosts /\ [][NextPosts]_vars

\* C27: once concurrent POST /api/costs/transportation and
\* /api/costs/installation requests for one project have all completed
\* successfully, however their steps interleaved, the project's
\* total_actual_cost is the sum of total_cost over the project's
\* transportation and installation cost records.
C27_TotalIsSumOfRecords ==
  \A p \in 1..Len(costdb.projects) :
    LET PostsFor == {r \in 1..MaxPosts : posts[r].project_id = p}
        RecordedCosts ==
          Sum(TotalCosts(CostsOfProject(costdb.transportation, p)))
          + Sum(TotalCosts(CostsOfProject(costdb.installation, p)))
    IN (/\ PostsFor # {}
        /\ \A r \in PostsFor : posts[r].pc = "done" /\ posts[r].status = 201)
       => costdb.projects[p].total_actual_cost = RecordedCosts

C27_Witness ==
  /\ posts[1].pc = "done" /\ posts[1].kind = "transportation"
  /\ posts[2].pc = "done" /\ posts[2].kind = "installation"
  /\ posts[1].project_id = 1 /\ posts[2].project_id = 1
  /\ Len(costdb.transportation) = 2
  /\ Len(costdb.installation) = 2
  /\ costdb.projects[1].total_actual_cost = 1200 + 750 + 1800

----------------------------------------------------------------------------
\* C28: for an upload request answered with 201, vector_indexed of the
\* response equals the indexed flag of the stored document at that moment:
\* true exactly when indexDocument ran to completion; an indexing failure at
\* any step leaves both false, and the upload still succeeds.
C28_ResponseMatchesStoredFlag ==
  /\ upres.status = 201 =>
       /\ DocumentExists(upres.document_id)
       /\ upres.vector_indexed = documents[upres.document_id].vector_indexed
       /\ upres.vector_indexed <=>
            (/\ run.via = "upload"
             /\ run.documentId = upres.document_id
             /\ run.pc = "done")
  /\ (run.via = "upload" /\ run.pc = "failed") =>
       /\ upres.status = 201
       /\ upres.document_id = run.documentId
       /\ ~upres.vector_indexed
       /\ ~documents[run.documentId].vector_indexed

\* The status update itself raised, after both stores were written.
C28_Witness ==
  /\ run.via = "upload"
  /\ run.pc = "failed"
  /\ run.i = Len(run.chunks)
  /\ Len(run.chunks) = 2
  /\ RunKeys(run) \subseteq DOMAIN vectorize
  /\ upres = [status |-> 201, document_id |-> run.documentId,
              vector_indexed |-> FALSE]

----------------------------------------------------------------------------
\* C29: whenever query absorbs a failure of the text generation (the answer
\* is the fixed fallback string), the result it returns has no
\* cost_breakdown.
C29_FallbackHasNoBreakdown ==
  AbsorbedGenerationFailure =>
    /\ ~qres.cost_breakdown.present
    /\ DOMAIN qres.cost_breakdown.fields = {}

C29_Witness ==
  /\ AbsorbedGenerationFailure
  /\ qres.fault = "generation"
  /\ qres.matches # <<>>
  /\ ~qres.cost_breakdown.present

\* C30: every field present in a cost_breakdown that extractCostBreakdown
\* returns is a finite number, not negative, whatever the answer string
\* (a label followed only by separators such as "," included).
C30_BreakdownFieldsAreNumbers ==
  qres.cost_breakdown.present =>
    \A f \in DOMAIN qres.cost_breakdown.fields :
      /\ ~qres.cost_breakdown.fields[f].nan
      /\ qres.cost_breakdown.fields[f].value >= 0

====
